---- MODULE Spec2Model ----
(***************************************************************************)
(* Model of docker/ctakes/app.py: the lexical context detectors, the lab   *)
(* value extractor, the entity normaliser, the merge/dedup step and the    *)
(* two Flask routes.                                                       *)
(*                                                                         *)
(* A Python str is a sequence of one-character strings.  A Python dict is  *)
(* a record; a key the code never sets is absent from the record's DOMAIN. *)
(* Python's None is the string "None".                                     *)
(***************************************************************************)
EXTENDS Integers, Sequences, FiniteSets, TLC

VARIABLES
    CODE_MAP,        \* app.py:88   surface text -> code, system
    LAB_PATTERNS,    \* app.py:106  ordered (regex, LOINC code, unit, display)
    NEGATION_CUES,   \* app.py:119  ordered cue strings
    target_rules,    \* app.py:30-83 rules added to the target matcher
                     \* (each table is held as the row numbers, in the table's
                     \* literal below, of the rows it holds now: in order for
                     \* the two lists, as a set for the dict and the matcher)
    request,         \* the request being answered (or "none" before the first)
    doc_ents,        \* doc.ents of the pipeline call of this request
    response,        \* the response of the last request
    core_invoked,    \* whether the last request called extract_clinical_entities
    replay,          \* replay harness: the probe request and its first answer
    ctx,             \* context-detector harness: text, offset, results
    mrg              \* merge harness: the two input lists and the results

vars == <<CODE_MAP, LAB_PATTERNS, NEGATION_CUES, target_rules, request, doc_ents,
          response, core_invoked, replay, ctx, mrg>>

tables == <<CODE_MAP, LAB_PATTERNS, NEGATION_CUES, target_rules>>

None == "None"

-----------------------------------------------------------------------------
(* Python str primitives *)

UpperLetters == <<"A","B","C","D","E","F","G","H","I","J","K","L","M",
                  "N","O","P","Q","R","S","T","U","V","W","X","Y","Z">>
LowerLetters == <<"a","b","c","d","e","f","g","h","i","j","k","l","m",
                  "n","o","p","q","r","s","t","u","v","w","x","y","z">>

\* str.lower() on one character
LowerChar(c) ==
    IF \E i \in 1..26 : UpperLetters[i] = c
    THEN LowerLetters[CHOOSE i \in 1..26 : UpperLetters[i] = c]
    ELSE c

\* s.lower()
Lower(s) == [i \in 1..Len(s) |-> LowerChar(s[i])]

\* max(a, b)
Max(a, b) == IF a >= b THEN a ELSE b

\* s[a:b] for 0 <= a and 0 <= b (Python clamps both ends to len(s))
Slice(s, a, b) ==
    LET hi == IF b > Len(s) THEN Len(s) ELSE b
    IN  IF a >= hi THEN <<>> ELSE SubSeq(s, a + 1, hi)

\* sub in s
Contains(s, sub) ==
    \E i \in 0..(Len(s) - Len(sub)) : SubSeq(s, i + 1, i + Len(sub)) = sub

-----------------------------------------------------------------------------
(* The process-wide tables as the module body leaves them *)

NegationCues0 ==
    << <<"n","o"," ">>, <<"n","o","t"," ">>, <<"d","e","n","i","e","s"," ">>,
       <<"d","e","n","i","e","d"," ">>, <<"w","i","t","h","o","u","t"," ">>,
       <<"n","e","g","a","t","i","v","e"," ">>, <<"a","b","s","e","n","t"," ">>,
       <<"n","o"," ","e","v","i","d","e","n","c","e"," ","o","f">>,
       <<"r","u","l","e","d"," ","o","u","t">>, <<"r","u","l","e","s"," ","o","u","t">>,
       <<"u","n","l","i","k","e","l","y">> >>

history_cues ==
    << <<"h","i","s","t","o","r","y"," ","o","f">>, <<"h","/","o">>,
       <<"p","r","e","v","i","o","u","s">>, <<"p","r","i","o","r">>,
       <<"p","a","s","t">>, <<"f","o","r","m","e","r">> >>

hypothetical_cues ==
    << <<"i","f"," ">>, <<"s","h","o","u","l","d"," ">>,
       <<"c","o","n","s","i","d","e","r"," ">>, <<"p","o","s","s","i","b","l","e"," ">>,
       <<"s","u","s","p","e","c","t">> >>

\* the rows a table holds now, given its literal and its row numbers
Rows(literal, ids) == [i \in 1..Len(ids) |-> literal[ids[i]]]

\* the row numbers of a list that holds its whole literal
AllRows(literal) == [i \in 1..Len(literal) |-> i]

AssertionWindow == 60
TemporalityWindow == 80

-----------------------------------------------------------------------------
(* Lexical context detector *)

\* for cue in cues: if cue in s: return True  (falls through to False)
RECURSIVE AnyCueIn(_, _)
AnyCueIn(cues, s) ==
    IF cues = <<>> THEN FALSE
    ELSE IF Contains(s, Head(cues)) THEN TRUE
    ELSE AnyCueIn(Tail(cues), s)

\* detect_assertion without the .lower() of the window
detect_assertion_no_lower(text, span_start, entity_text) ==
    LET window_start   == Max(0, span_start - AssertionWindow)
        preceding_text == Slice(text, window_start, span_start)
    IN  IF AnyCueIn(Rows(NegationCues0, NEGATION_CUES), preceding_text) THEN "negated" ELSE "affirmed"

detect_assertion(text, span_start, entity_text) ==
    LET window_start   == Max(0, span_start - AssertionWindow)
        preceding_text == Lower(Slice(text, window_start, span_start))
    IN  IF AnyCueIn(Rows(NegationCues0, NEGATION_CUES), preceding_text) THEN "negated" ELSE "affirmed"

\* detect_temporality with the two loops in the other order
detect_temporality_hypothetical_first(text, span_start) ==
    LET window_start == Max(0, span_start - TemporalityWindow)
        preceding    == Lower(Slice(text, window_start, span_start))
    IN  IF AnyCueIn(hypothetical_cues, preceding) THEN "hypothetical"
        ELSE IF AnyCueIn(history_cues, preceding) THEN "historical"
        ELSE "current"

detect_temporality(text, span_start) ==
    LET window_start == Max(0, span_start - TemporalityWindow)
        preceding    == Lower(Slice(text, window_start, span_start))
    IN  IF AnyCueIn(history_cues, preceding) THEN "historical"
        ELSE IF AnyCueIn(hypothetical_cues, preceding) THEN "hypothetical"
        ELSE "current"

-----------------------------------------------------------------------------
(* Regular expressions of LAB_PATTERNS, as re matches them: a backtracking,  *)
(* leftmost match that tries a greedy repetition longest first and the      *)
(* branches of an alternation in order.  A pattern is a sequence of nodes:  *)
(*   rep: a character class repeated min..max times (max -1: unbounded)     *)
(*   alt: a non-capturing group of alternatives, each a sequence of nodes   *)
(*   cap: capturing group 1                                                 *)

Rep(set, min, max) == [k |-> "rep", set |-> set, min |-> min, max |-> max]
Lit(c)    == Rep({c}, 1, 1)
Star(set) == Rep(set, 0, -1)
Alt(alts) == [k |-> "alt", alts |-> alts]
Opt(body) == Alt(<<body, <<>>>>)
Cap(body) == [k |-> "cap", body |-> body]
Lits(s)   == [i \in 1..Len(s) |-> Lit(s[i])]

\* \d and \s over the characters the texts are drawn from (ASCII)
Digit      == {"0","1","2","3","4","5","6","7","8","9"}
WhiteSpace == {" ", "\t", "\n", "\r", "\f"}
ColonSpace == {":"} \cup WhiteSpace

\* number of consecutive characters of text from pos (0-based) that are in set
RECURSIVE RunLength(_, _, _)
RunLength(text, pos, set) ==
    IF pos < Len(text) /\ text[pos + 1] \in set
    THEN 1 + RunLength(text, pos + 1, set)
    ELSE 0

\* every way nodes can match at pos, in re's order of preference; each is
\* [end |-> where the match ends, g1 |-> group 1's (start, end) or <<>>]
RECURSIVE MatchSeq(_, _, _, _), MatchNode(_, _, _, _), MatchRest(_, _, _, _),
          MatchAlts(_, _, _, _), RepEnds(_, _, _, _)

\* pos + k for k = hi down to lo
RepEnds(pos, hi, lo, g1) ==
    IF hi < lo THEN <<>>
    ELSE <<[end |-> pos + hi, g1 |-> g1]>> \o RepEnds(pos, hi - 1, lo, g1)

MatchAlts(alts, text, pos, g1) ==
    IF alts = <<>> THEN <<>>
    ELSE MatchSeq(Head(alts), text, pos, g1) \o MatchAlts(Tail(alts), text, pos, g1)

MatchNode(node, text, pos, g1) ==
    CASE node.k = "rep" ->
            LET run == RunLength(text, pos, node.set)
                hi  == IF node.max >= 0 /\ run > node.max THEN node.max ELSE run
            IN  RepEnds(pos, hi, node.min, g1)
      [] node.k = "alt" -> MatchAlts(node.alts, text, pos, g1)
      [] node.k = "cap" ->
            LET inner == MatchSeq(node.body, text, pos, g1)
            IN  [i \in 1..Len(inner) |-> [end |-> inner[i].end, g1 |-> <<pos, inner[i].end>>]]

\* continue each way the first node matched with the rest of the pattern
MatchRest(firsts, rest, text, i) ==
    IF i > Len(firsts) THEN <<>>
    ELSE MatchSeq(rest, text, firsts[i].end, firsts[i].g1)
         \o MatchRest(firsts, rest, text, i + 1)

MatchSeq(nodes, text, pos, g1) ==
    IF nodes = <<>> THEN <<[end |-> pos, g1 |-> g1]>>
    ELSE MatchRest(MatchNode(Head(nodes), text, pos, g1), Tail(nodes), text, 1)

\* re.finditer(pattern, text) from pos on: the matches, left to right, not
\* overlapping; each [start, end, g1]
RECURSIVE finditer(_, _, _)
finditer(pattern, text, pos) ==
    IF pos > Len(text) THEN <<>>
    ELSE LET ways == MatchSeq(pattern, text, pos, <<>>)
         IN  IF ways = <<>> THEN finditer(pattern, text, pos + 1)
             ELSE LET m == [start |-> pos, end |-> ways[1].end, g1 |-> ways[1].g1]
                  IN  <<m>> \o finditer(pattern, text,
                                        IF m.end = pos THEN pos + 1 ELSE m.end)

-----------------------------------------------------------------------------
(* LAB_PATTERNS, app.py:106-116 *)

LabPatterns0 ==
    << [pattern |-> <<Alt(<< Lits(<<"O","2">>) \o <<Star(WhiteSpace), Rep({"S","s"},1,1)>>
                                \o Lits(<<"a","t">>),
                             Lits(<<"S","p","O","2">>),
                             Lits(<<"S","a","O","2">>) >>),
                      Star(ColonSpace), Cap(<<Rep(Digit,1,3)>>), Star(WhiteSpace), Lit("%")>>,
        loinc_code |-> "59408-5", unit |-> "%", display |-> "SpO2"],
       [pattern |-> Lits(<<"p","O","2">>)
                    \o <<Star(ColonSpace), Cap(<<Rep(Digit,1,3)>>), Star(WhiteSpace),
                         Opt(Lits(<<"m","m","H","g">>))>>,
        loinc_code |-> "2703-7", unit |-> "mmHg", display |-> "Arterial pO2"],
       [pattern |-> Lits(<<"p","C","O","2">>)
                    \o <<Star(ColonSpace), Cap(<<Rep(Digit,1,3)>>), Star(WhiteSpace),
                         Opt(Lits(<<"m","m","H","g">>))>>,
        loinc_code |-> "2019-8", unit |-> "mmHg", display |-> "Arterial pCO2"],
       [pattern |-> Lits(<<"p","H">>)
                    \o <<Star(ColonSpace), Cap(<<Rep(Digit,1,1), Lit("."), Rep(Digit,1,2)>>)>>,
        loinc_code |-> "2744-1", unit |-> "[pH]", display |-> "Arterial pH"],
       [pattern |-> Lits(<<"H","C","O","3">>)
                    \o <<Star(ColonSpace), Cap(<<Rep(Digit,1,3)>>), Star(WhiteSpace),
                         Opt(<<Alt(<< Lits(<<"m","E","q","/","L">>),
                                      Lits(<<"m","m","o","l","/","L">>) >>)>>)>>,
        loinc_code |-> "1959-6", unit |-> "mmol/L", display |-> "Bicarbonate"],
       [pattern |-> <<Alt(<< Lits(<<"H","R">>),
                             <<Rep({"H","h"},1,1)>> \o Lits(<<"e","a","r","t"," ">>)
                                \o <<Rep({"R","r"},1,1)>> \o Lits(<<"a","t","e">>) >>),
                      Star(ColonSpace), Cap(<<Rep(Digit,2,3)>>)>>,
        loinc_code |-> "8867-4", unit |-> "/min", display |-> "Heart rate"],
       [pattern |-> <<Alt(<< Lits(<<"R","R">>),
                             <<Rep({"R","r"},1,1)>> \o Lits(<<"e","s","p">>)
                                \o <<Opt(Lits(<<"i","r","a","t","o","r","y">>)),
                                     Star(WhiteSpace), Rep({"R","r"},1,1)>>
                                \o Lits(<<"a","t","e">>) >>),
                      Star(ColonSpace), Cap(<<Rep(Digit,1,2)>>)>>,
        loinc_code |-> "9279-1", unit |-> "/min", display |-> "Respiratory rate"],
       [pattern |-> <<Alt(<< Lits(<<"B","P">>),
                             <<Rep({"B","b"},1,1)>> \o Lits(<<"l","o","o","d"," ">>)
                                \o <<Rep({"P","p"},1,1)>>
                                \o Lits(<<"r","e","s","s","u","r","e">>) >>),
                      Star(ColonSpace),
                      Cap(<<Rep(Digit,2,3), Lit("/"), Rep(Digit,2,3)>>)>>,
        loinc_code |-> "85354-9", unit |-> "mmHg", display |-> "Blood pressure"],
       [pattern |-> <<Rep({"T","t"},1,1)>> \o Lits(<<"e","m","p">>)
                    \o <<Opt(Lits(<<"e","r","a","t","u","r","e">>)), Star(ColonSpace),
                         Cap(<<Rep(Digit,2,2), Lit("."), Rep(Digit,1,1)>>),
                         Star(WhiteSpace), Opt(<<Alt(<< Lits(<<"C">>), Lits(<<"F">>) >>)>>)>>,
        loinc_code |-> "8310-5", unit |-> "Cel", display |-> "Body temperature"] >>

-----------------------------------------------------------------------------
(* float(value_str): the decimal the digits denote, as [mant, scale] meaning *)
(* mant / 10^scale with no trailing zero in the fraction (float("7.40") =    *)
(* float("7.4")).  A string that is no decimal literal raises ValueError.    *)

DigitValue(c) == CHOOSE d \in 0..9 : <<"0","1","2","3","4","5","6","7","8","9">>[d + 1] = c

RECURSIVE DigitsValue(_)
DigitsValue(s) ==
    IF s = <<>> THEN 0
    ELSE 10 * DigitsValue(SubSeq(s, 1, Len(s) - 1)) + DigitValue(s[Len(s)])

RECURSIVE StripZeros(_)
StripZeros(s) ==
    IF s # <<>> /\ s[Len(s)] = "0" THEN StripZeros(SubSeq(s, 1, Len(s) - 1)) ELSE s

\* whether float(value_str) raises ValueError
ValueError(value_str) ==
    ~ /\ \A i \in 1..Len(value_str) : value_str[i] \in Digit \cup {"."}
      /\ Cardinality({i \in 1..Len(value_str) : value_str[i] = "."}) <= 1
      /\ \E i \in 1..Len(value_str) : value_str[i] \in Digit

\* float(value_str) when it raises nothing
float(value_str) ==
    LET dots == {i \in 1..Len(value_str) : value_str[i] = "."}
    IN  IF dots = {} THEN [mant |-> DigitsValue(value_str), scale |-> 0]
        ELSE LET d    == CHOOSE i \in dots : TRUE
                 int  == SubSeq(value_str, 1, d - 1)
                 frac == StripZeros(SubSeq(value_str, d + 1, Len(value_str)))
             IN  [mant |-> DigitsValue(int \o frac), scale |-> Len(frac)]

-----------------------------------------------------------------------------
(* Lab/vital extractor, app.py:155-186 *)

\* LabEntity with "end": span_end + 1
LabEntity_end_plus_one(text, rule, match) ==
    LET value_str    == Slice(text, match.g1[1], match.g1[2])
        span_start   == match.start
        span_end     == match.end
        matched_text == Slice(text, match.start, match.end)
        entity == [text        |-> matched_text,
                   type        |-> "lab",
                   code        |-> rule.loinc_code,
                   codeSystem  |-> "http://loinc.org",
                   codeDisplay |-> rule.display,
                   assertion   |-> detect_assertion(text, span_start, matched_text),
                   temporality |-> detect_temporality(text, span_start),
                   spans       |-> <<[start |-> span_start, end |-> span_end + 1]>>]
    IN  IF ~Contains(value_str, <<"/">>) /\ ~ValueError(value_str)
        THEN [f \in DOMAIN entity \cup {"numericValue", "unit"} |->
                 IF f = "numericValue" THEN float(value_str)
                 ELSE IF f = "unit" THEN rule.unit
                 ELSE entity[f]]
        ELSE entity

\* LabEntity with the unit set outside the test for "/"
LabEntity_unit_always(text, rule, match) ==
    LET value_str    == Slice(text, match.g1[1], match.g1[2])
        span_start   == match.start
        span_end     == match.end
        matched_text == Slice(text, match.start, match.end)
        entity == [text        |-> matched_text,
                   type        |-> "lab",
                   code        |-> rule.loinc_code,
                   codeSystem  |-> "http://loinc.org",
                   codeDisplay |-> rule.display,
                   assertion   |-> detect_assertion(text, span_start, matched_text),
                   temporality |-> detect_temporality(text, span_start),
                   spans       |-> <<[start |-> span_start, end |-> span_end]>>,
                   unit        |-> rule.unit]
    IN  IF ~Contains(value_str, <<"/">>) /\ ~ValueError(value_str)
        THEN [f \in DOMAIN entity \cup {"numericValue"} |->
                 IF f = "numericValue" THEN float(value_str) ELSE entity[f]]
        ELSE entity

\* the entity of one match of one rule (the body of the inner loop)
LabEntity(text, rule, match) ==
    LET value_str    == Slice(text, match.g1[1], match.g1[2])
        span_start   == match.start
        span_end     == match.end
        matched_text == Slice(text, match.start, match.end)
        entity == [text        |-> matched_text,
                   type        |-> "lab",
                   code        |-> rule.loinc_code,
                   codeSystem  |-> "http://loinc.org",
                   codeDisplay |-> rule.display,
                   assertion   |-> detect_assertion(text, span_start, matched_text),
                   temporality |-> detect_temporality(text, span_start),
                   spans       |-> <<[start |-> span_start, end |-> span_end]>>]
    IN  \* the except clause absorbs a ValueError before either key is set
        IF ~Contains(value_str, <<"/">>) /\ ~ValueError(value_str)
        THEN [f \in DOMAIN entity \cup {"numericValue", "unit"} |->
                 IF f = "numericValue" THEN float(value_str)
                 ELSE IF f = "unit" THEN rule.unit
                 ELSE entity[f]]
        ELSE entity

\* the entities of the matches ms[i..] of one rule
RECURSIVE LabEntitiesOf(_, _, _, _)
LabEntitiesOf(text, rule, ms, i) ==
    IF i > Len(ms) THEN <<>>
    ELSE <<LabEntity(text, rule, ms[i])>> \o LabEntitiesOf(text, rule, ms, i + 1)

\* the outer loop over the rules patterns[i..]
RECURSIVE LabEntitiesFrom(_, _, _)
LabEntitiesFrom(text, patterns, i) ==
    IF i > Len(patterns) THEN <<>>
    ELSE LabEntitiesOf(text, patterns[i], finditer(patterns[i].pattern, text, 0), 1)
         \o LabEntitiesFrom(text, patterns, i + 1)

extract_lab_values(text) == LabEntitiesFrom(text, Rows(LabPatterns0, LAB_PATTERNS), 1)

-----------------------------------------------------------------------------
(* The target rules, app.py:30-83, and CODE_MAP, app.py:88-103 *)

TargetRules0 ==
    << [literal |-> <<"a","c","u","t","e"," ","r","e","s","p","i","r","a","t","o","r","y"," ","f","a","i","l","u","r","e">>,
        category |-> "PROBLEM"],
       [literal |-> <<"r","e","s","p","i","r","a","t","o","r","y"," ","f","a","i","l","u","r","e">>,
        category |-> "PROBLEM"],
       [literal |-> <<"C","O","P","D">>,
        category |-> "PROBLEM"],
       [literal |-> <<"C","O","P","D"," ","e","x","a","c","e","r","b","a","t","i","o","n">>,
        category |-> "PROBLEM"],
       [literal |-> <<"c","h","r","o","n","i","c"," ","o","b","s","t","r","u","c","t","i","v","e"," ","p","u","l","m","o","n","a","r","y"," ","d","i","s","e","a","s","e">>,
        category |-> "PROBLEM"],
       [literal |-> <<"p","n","e","u","m","o","n","i","a">>,
        category |-> "PROBLEM"],
       [literal |-> <<"s","e","p","s","i","s">>,
        category |-> "PROBLEM"],
       [literal |-> <<"d","y","s","p","n","e","a">>,
        category |-> "PROBLEM"],
       [literal |-> <<"s","h","o","r","t","n","e","s","s"," ","o","f"," ","b","r","e","a","t","h">>,
        category |-> "PROBLEM"],
       [literal |-> <<"h","y","p","o","x","i","a">>,
        category |-> "PROBLEM"],
       [literal |-> <<"h","y","p","e","r","c","a","p","n","i","a">>,
        category |-> "PROBLEM"],
       [literal |-> <<"p","u","l","m","o","n","a","r","y"," ","e","m","b","o","l","i","s","m">>,
        category |-> "PROBLEM"],
       [literal |-> <<"c","o","n","g","e","s","t","i","v","e"," ","h","e","a","r","t"," ","f","a","i","l","u","r","e">>,
        category |-> "PROBLEM"],
       [literal |-> <<"h","e","a","r","t"," ","f","a","i","l","u","r","e">>,
        category |-> "PROBLEM"],
       [literal |-> <<"c","h","e","s","t"," ","p","a","i","n">>,
        category |-> "PROBLEM"],
       [literal |-> <<"f","e","v","e","r">>,
        category |-> "PROBLEM"],
       [literal |-> <<"c","o","u","g","h">>,
        category |-> "PROBLEM"],
       [literal |-> <<"w","h","e","e","z","i","n","g">>,
        category |-> "PROBLEM"],
       [literal |-> <<"h","y","p","e","r","i","n","f","l","a","t","i","o","n">>,
        category |-> "PROBLEM"],
       [literal |-> <<"s","t","e","r","o","i","d","s">>,
        category |-> "MEDICATION"],
       [literal |-> <<"I","V"," ","s","t","e","r","o","i","d","s">>,
        category |-> "MEDICATION"],
       [literal |-> <<"b","r","o","n","c","h","o","d","i","l","a","t","o","r","s">>,
        category |-> "MEDICATION"],
       [literal |-> <<"s","u","p","p","l","e","m","e","n","t","a","l"," ","O","2">>,
        category |-> "MEDICATION"],
       [literal |-> <<"s","u","p","p","l","e","m","e","n","t","a","l"," ","o","x","y","g","e","n">>,
        category |-> "MEDICATION"],
       [literal |-> <<"a","l","b","u","t","e","r","o","l">>,
        category |-> "MEDICATION"],
       [literal |-> <<"i","p","r","a","t","r","o","p","i","u","m">>,
        category |-> "MEDICATION"],
       [literal |-> <<"p","r","e","d","n","i","s","o","n","e">>,
        category |-> "MEDICATION"],
       [literal |-> <<"m","e","t","h","y","l","p","r","e","d","n","i","s","o","l","o","n","e">>,
        category |-> "MEDICATION"],
       [literal |-> <<"h","e","p","a","r","i","n">>,
        category |-> "MEDICATION"],
       [literal |-> <<"a","n","t","i","b","i","o","t","i","c","s">>,
        category |-> "MEDICATION"],
       [literal |-> <<"a","c","c","e","s","s","o","r","y"," ","m","u","s","c","l","e"," ","u","s","e">>,
        category |-> "SIGN_SYMPTOM"],
       [literal |-> <<"d","e","c","r","e","a","s","e","d"," ","b","r","e","a","t","h"," ","s","o","u","n","d","s">>,
        category |-> "SIGN_SYMPTOM"],
       [literal |-> <<"e","x","p","i","r","a","t","o","r","y"," ","w","h","e","e","z","e","s">>,
        category |-> "SIGN_SYMPTOM"],
       [literal |-> <<"w","h","e","e","z","e","s">>,
        category |-> "SIGN_SYMPTOM"],
       [literal |-> <<"t","a","c","h","y","c","a","r","d","i","a">>,
        category |-> "SIGN_SYMPTOM"],
       [literal |-> <<"t","a","c","h","y","p","n","e","a">>,
        category |-> "SIGN_SYMPTOM"],
       [literal |-> <<"c","r","a","c","k","l","e","s">>,
        category |-> "SIGN_SYMPTOM"],
       [literal |-> <<"r","a","l","e","s">>,
        category |-> "SIGN_SYMPTOM"],
       [literal |-> <<"e","d","e","m","a">>,
        category |-> "SIGN_SYMPTOM"],
       [literal |-> <<"c","y","a","n","o","s","i","s">>,
        category |-> "SIGN_SYMPTOM"] >>

CodeMap0 ==
    << [key |-> <<"a","c","u","t","e"," ","r","e","s","p","i","r","a","t","o","r","y"," ","f","a","i","l","u","r","e">>,
        code |-> "J96.00", system |-> "http://hl7.org/fhir/sid/icd-10-cm"],
       [key |-> <<"r","e","s","p","i","r","a","t","o","r","y"," ","f","a","i","l","u","r","e">>,
        code |-> "J96.9", system |-> "http://hl7.org/fhir/sid/icd-10-cm"],
       [key |-> <<"c","o","p","d">>,
        code |-> "J44.1", system |-> "http://hl7.org/fhir/sid/icd-10-cm"],
       [key |-> <<"c","o","p","d"," ","e","x","a","c","e","r","b","a","t","i","o","n">>,
        code |-> "J44.1", system |-> "http://hl7.org/fhir/sid/icd-10-cm"],
       [key |-> <<"c","h","r","o","n","i","c"," ","o","b","s","t","r","u","c","t","i","v","e"," ","p","u","l","m","o","n","a","r","y"," ","d","i","s","e","a","s","e">>,
        code |-> "J44.9", system |-> "http://hl7.org/fhir/sid/icd-10-cm"],
       [key |-> <<"p","n","e","u","m","o","n","i","a">>,
        code |-> "J18.9", system |-> "http://hl7.org/fhir/sid/icd-10-cm"],
       [key |-> <<"s","e","p","s","i","s">>,
        code |-> "A41.9", system |-> "http://hl7.org/fhir/sid/icd-10-cm"],
       [key |-> <<"d","y","s","p","n","e","a">>,
        code |-> "R06.00", system |-> "http://hl7.org/fhir/sid/icd-10-cm"],
       [key |-> <<"s","h","o","r","t","n","e","s","s"," ","o","f"," ","b","r","e","a","t","h">>,
        code |-> "R06.02", system |-> "http://hl7.org/fhir/sid/icd-10-cm"],
       [key |-> <<"h","y","p","o","x","i","a">>,
        code |-> "R09.02", system |-> "http://hl7.org/fhir/sid/icd-10-cm"],
       [key |-> <<"h","y","p","e","r","c","a","p","n","i","a">>,
        code |-> "R06.89", system |-> "http://hl7.org/fhir/sid/icd-10-cm"],
       [key |-> <<"c","h","e","s","t"," ","p","a","i","n">>,
        code |-> "R07.9", system |-> "http://hl7.org/fhir/sid/icd-10-cm"],
       [key |-> <<"f","e","v","e","r">>,
        code |-> "R50.9", system |-> "http://hl7.org/fhir/sid/icd-10-cm"],
       [key |-> <<"c","o","u","g","h">>,
        code |-> "R05.9", system |-> "http://hl7.org/fhir/sid/icd-10-cm"] >>

-----------------------------------------------------------------------------
(* The external pipeline, nlp(text): a black box.  doc.ents is some sequence *)
(* of spans of the text, left to right and not overlapping; a span is an     *)
(* occurrence of a target rule's literal (matched without regard to case),   *)
(* labelled with the rule's category, or a run of digits the statistical     *)
(* recogniser labels CARDINAL.  The context component, when it is in the    *)
(* pipeline, gives every span the extension attribute is_negated.           *)

MaxEnts == 1

RuleSpans(text) ==
    {[start_char |-> x[1], end_char |-> x[1] + Len(TargetRules0[x[2]].literal),
      label_ |-> TargetRules0[x[2]].category] :
        x \in {y \in (0..Len(text)) \X target_rules :
                  LET b == y[1] + Len(TargetRules0[y[2]].literal)
                  IN  /\ b <= Len(text)
                      /\ Lower(Slice(text, y[1], b)) = Lower(TargetRules0[y[2]].literal)}}

NumberSpans(text) ==
    {[start_char |-> a, end_char |-> b, label_ |-> "CARDINAL"] :
        <<a, b>> \in
            {x \in (0..Len(text)) \X (0..Len(text)) :
                /\ x[1] < x[2]
                /\ \A i \in (x[1] + 1)..x[2] : text[i] \in Digit
                /\ (x[1] = 0 \/ text[x[1]] \notin Digit)
                /\ (x[2] = Len(text) \/ text[x[2] + 1] \notin Digit)}}

CandidateSpans(text) == RuleSpans(text) \cup NumberSpans(text)

\* one span as the handler reads it: ent.text, ent.label_, ent.start_char,
\* ent.end_char and, when flag is not "absent", ent._.is_negated
Ent(text, span, flag) ==
    LET base == [text       |-> Slice(text, span.start_char, span.end_char),
                 label_     |-> span.label_,
                 start_char |-> span.start_char,
                 end_char   |-> span.end_char]
    IN  IF flag = "absent" THEN base
        ELSE [f \in DOMAIN base \cup {"is_negated"} |->
                 IF f = "is_negated" THEN flag = "true" ELSE base[f]]

\* every doc.ents the pipeline may return for text
PipelineOutputs(text) ==
    LET cand == CandidateSpans(text)
        seqs == UNION {[1..k -> cand] : k \in 0..MaxEnts}
        ok(q) == \A i \in 1..(Len(q) - 1) : q[i].end_char <= q[i + 1].start_char
    IN  UNION { { [i \in 1..Len(q) |-> Ent(text, q[i], fl[i])] :
                    fl \in [1..Len(q) -> {"true", "false"}] \cup {[i \in 1..Len(q) |-> "absent"]} } :
                q \in {q \in seqs : ok(q)} }

-----------------------------------------------------------------------------
(* Entity normaliser and merge/dedup, app.py:189-245 *)

\* type_map.get(entity_label, "other")
type_map(entity_label) ==
    CASE entity_label = "PROBLEM"      -> "problem"
      [] entity_label = "MEDICATION"   -> "medication"
      [] entity_label = "SIGN_SYMPTOM" -> "sign_symptom"
      [] OTHER                         -> "other"

\* NlpEntity that never reads ent._.is_negated
NlpEntity_ignores_flag(text, ent) ==
    LET entity_text == ent.text
        key         == Lower(entity_text)
        found       == \E r \in CODE_MAP : CodeMap0[r].key = key
        code_info   == CodeMap0[CHOOSE r \in CODE_MAP : CodeMap0[r].key = key]
    IN  [text        |-> entity_text,
         type        |-> type_map(ent.label_),
         code        |-> IF found THEN code_info.code ELSE None,
         codeSystem  |-> IF found THEN code_info.system ELSE None,
         assertion   |-> detect_assertion(text, ent.start_char, entity_text),
         temporality |-> detect_temporality(text, ent.start_char),
         spans       |-> <<[start |-> ent.start_char, end |-> ent.end_char]>>]

\* the entity appended for one ent of doc.ents (the body of the loop)
NlpEntity(text, ent) ==
    LET entity_text == ent.text
        key         == Lower(entity_text)
        found       == \E r \in CODE_MAP : CodeMap0[r].key = key
        code_info   == CodeMap0[CHOOSE r \in CODE_MAP : CodeMap0[r].key = key]
        assertion   == IF "is_negated" \in DOMAIN ent /\ ent.is_negated
                       THEN "negated"
                       ELSE detect_assertion(text, ent.start_char, entity_text)
    IN  [text        |-> entity_text,
         type        |-> type_map(ent.label_),
         code        |-> IF found THEN code_info.code ELSE None,
         codeSystem  |-> IF found THEN code_info.system ELSE None,
         assertion   |-> assertion,
         temporality |-> detect_temporality(text, ent.start_char),
         spans       |-> <<[start |-> ent.start_char, end |-> ent.end_char]>>]

\* DedupKey without the span start
DedupKey_no_start(e) == <<Lower(e.text), e.type>>

\* the dedup key of an entity
DedupKey(e) == <<Lower(e.text), e.type, e.spans[1].start>>

\* DedupLoop with deduped.insert(0, e) for deduped.append(e)
RECURSIVE DedupLoop_prepend(_, _, _, _)
DedupLoop_prepend(entities, i, seen, deduped) ==
    IF i > Len(entities) THEN deduped
    ELSE LET key == DedupKey(entities[i])
         IN  IF key \notin seen
             THEN DedupLoop_prepend(entities, i + 1, seen \cup {key},
                                    <<entities[i]>> \o deduped)
             ELSE DedupLoop_prepend(entities, i + 1, seen, deduped)

\* the dedup loop from entities[i] on, with what it has seen and kept so far
RECURSIVE DedupLoop(_, _, _, _)
DedupLoop(entities, i, seen, deduped) ==
    IF i > Len(entities) THEN deduped
    ELSE LET key == DedupKey(entities[i])
         IN  IF key \notin seen
             THEN DedupLoop(entities, i + 1, seen \cup {key}, Append(deduped, entities[i]))
             ELSE DedupLoop(entities, i + 1, seen, deduped)

\* lines 236-245: the merge of the two streams, deduplicated
merge(nlp_entities, lab_entities) == DedupLoop(nlp_entities \o lab_entities, 1, {}, <<>>)

extract_clinical_entities(text, ents) ==
    merge([i \in 1..Len(ents) |-> NlpEntity(text, ents[i])], extract_lab_values(text))

-----------------------------------------------------------------------------
(* Flask routes, app.py:251-264.  A request body is malformed (get_json     *)
(* raises BadRequest), or JSON: null, an array, or an object obj mapping    *)
(* keys to strings.                                                         *)

NoResponse == [status |-> 0]

\* GET /health
health ==
    /\ response' = [status |-> 200, body |-> "ok"]
    /\ core_invoked' = FALSE
    /\ doc_ents' = <<>>
    /\ UNCHANGED tables

\* body.get("text", "") of a JSON object
TextOf(body) == IF "text" \in DOMAIN body.obj THEN body.obj.text ELSE <<>>

\* whether the handler gets as far as extract_clinical_entities
ReachesCore(body) == body.kind = "object" /\ TextOf(body) # <<>>

\* what POST /analyze answers to this body, the pipeline returning ents when
\* it is called
AnalyzeAnswer(body, ents) ==
    IF body.kind = "malformed"
    THEN \* request.get_json(force=True) raises BadRequest
         /\ response' = [status |-> 400, error |-> "Bad Request"]
         /\ core_invoked' = FALSE
         /\ doc_ents' = <<>>
    ELSE IF body.kind # "object"
    THEN \* body.get on None or a list: AttributeError, an unhandled exception
         /\ response' = [status |-> 500, error |-> "Internal Server Error"]
         /\ core_invoked' = FALSE
         /\ doc_ents' = <<>>
    ELSE IF TextOf(body) = <<>>
    THEN /\ response' = [status |-> 400, error |-> "Missing 'text' field"]
         /\ core_invoked' = FALSE
         /\ doc_ents' = <<>>
    ELSE /\ response' = [status |-> 200,
                         entities |-> extract_clinical_entities(TextOf(body), ents)]
         /\ core_invoked' = TRUE
         /\ doc_ents' = ents

\* analyze consuming LAB_PATTERNS as it scans (pop(0) for iteration)
analyze_pops_pattern(body, ents) ==
    /\ AnalyzeAnswer(body, ents)
    /\ LAB_PATTERNS' = IF ReachesCore(body) /\ LAB_PATTERNS # <<>>
                       THEN Tail(LAB_PATTERNS) ELSE LAB_PATTERNS
    /\ UNCHANGED <<CODE_MAP, NEGATION_CUES, target_rules>>

\* POST /analyze: the handler reads the tables and assigns none of them
analyze(body, ents) ==
    /\ AnalyzeAnswer(body, ents)
    /\ UNCHANGED tables

-----------------------------------------------------------------------------
(* Inputs *)

MaxFrags == 2

Fragments ==
    { <<"N","o"," ">>, <<"f","e","v","e","r">>, <<"H","R",":"," ","1","1","0">>,
      <<"B","P",":"," ","1","2","0","/","8","0">>, <<"h","/","o"," ">>,
      <<"S","p","O","2"," ","9","5","%">> }

RECURSIVE Concats(_, _)
Concats(frags, k) ==
    IF k = 0 THEN {<<>>}
    ELSE {f \o t : f \in frags, t \in Concats(frags, k - 1)}

TextsUpTo(frags, n) == UNION {Concats(frags, k) : k \in 0..n}

Texts == TextsUpTo(Fragments, MaxFrags)

Bodies ==
    {[kind |-> "malformed"], [kind |-> "null"], [kind |-> "array"],
     [kind |-> "object", obj |-> <<>>]}
    \cup {[kind |-> "object", obj |-> [text |-> t]] : t \in Texts}

Requests ==
    {[route |-> "/health"]} \cup {[route |-> "/analyze", body |-> b] : b \in Bodies}

IdleReplay == [probe |-> <<>>, served |-> FALSE, first |-> <<>>, others |-> FALSE, labs |-> <<>>]
IdleCtx    == [text |-> <<>>, off |-> 0, assertion |-> "?", temporality |-> "?"]
IdleMrg    == [nlp |-> <<>>, lab |-> <<>>, done |-> 0, merged |-> <<>>, again |-> <<>>]

TablesInit ==
    /\ CODE_MAP = DOMAIN CodeMap0
    /\ LAB_PATTERNS = AllRows(LabPatterns0)
    /\ NEGATION_CUES = AllRows(NegationCues0)
    /\ target_rules = DOMAIN TargetRules0

-----------------------------------------------------------------------------
(* The service answering one request *)

Init ==
    /\ TablesInit
    /\ request \in Requests
    /\ doc_ents = <<>>
    /\ response = NoResponse
    /\ core_invoked = FALSE
    /\ replay = IdleReplay
    /\ ctx = IdleCtx
    /\ mrg = IdleMrg

Analyze ==
    /\ request.route = "/analyze"
    /\ response = NoResponse
    /\ \E ents \in (IF ReachesCore(request.body)
                    THEN PipelineOutputs(TextOf(request.body)) ELSE {<<>>}) :
          analyze(request.body, ents)
    /\ UNCHANGED <<request, replay, ctx, mrg>>

Health ==
    /\ request.route = "/health"
    /\ response = NoResponse
    /\ health
    /\ UNCHANGED <<request, replay, ctx, mrg>>

Next == Analyze \/ Health

Spec == Init /\ [][Next]_vars

-----------------------------------------------------------------------------
(* The context detectors applied to a text and an offset *)

MaxCtxFrags == 3
PadLen == 45

Pad == [i \in 1..PadLen |-> "x"]

CtxFragments ==
    { <<"N","O"," ">>, <<"H","/","o">>, <<"I","f"," ">>, Pad }

CtxTexts == TextsUpTo(CtxFragments, MaxCtxFrags)

CtxInit ==
    /\ TablesInit
    /\ request = [route |-> "none"]
    /\ doc_ents = <<>>
    /\ response = NoResponse
    /\ core_invoked = FALSE
    /\ replay = IdleReplay
    /\ mrg = IdleMrg
    /\ \E t \in CtxTexts : \E o \in 0..Len(t) :
          ctx = [text |-> t, off |-> o, assertion |-> "?", temporality |-> "?"]

CtxAssertion ==
    /\ ctx.assertion = "?"
    /\ ctx' = [ctx EXCEPT !.assertion = detect_assertion(ctx.text, ctx.off, <<>>)]
    /\ UNCHANGED <<tables, request, doc_ents, response, core_invoked, replay, mrg>>

CtxTemporality ==
    /\ ctx.assertion # "?"
    /\ ctx.temporality = "?"
    /\ ctx' = [ctx EXCEPT !.temporality = detect_temporality(ctx.text, ctx.off)]
    /\ UNCHANGED <<tables, request, doc_ents, response, core_invoked, replay, mrg>>

CtxNext == CtxAssertion \/ CtxTemporality

SpecCtx == CtxInit /\ [][CtxNext]_vars

-----------------------------------------------------------------------------
(* The merge/dedup step applied to two entity lists *)

MaxList == 3
MaxLabList == 1

NlpPool ==
    {[text |-> t, type |-> ty, code |-> "R50.9",
      codeSystem |-> "http://hl7.org/fhir/sid/icd-10-cm",
      assertion |-> "affirmed", temporality |-> "current",
      spans |-> <<[start |-> a, end |-> a + 5]>>] :
        t \in {<<"f","e","v","e","r">>, <<"F","e","v","e","r">>},
        ty \in {"problem", "other"}, a \in {0, 7}}

LabPool ==
    {[text |-> t, type |-> "lab", code |-> "8867-4", codeSystem |-> "http://loinc.org",
      codeDisplay |-> "Heart rate", assertion |-> "affirmed", temporality |-> "current",
      spans |-> <<[start |-> 0, end |-> 5]>>,
      numericValue |-> [mant |-> 90, scale |-> 0], unit |-> "/min"] :
        t \in {<<"H","R",":","9","0">>, <<"h","r",":","9","0">>}}

ListsUpTo(pool, n) == UNION {[1..k -> pool] : k \in 0..n}

MrgInit ==
    /\ TablesInit
    /\ request = [route |-> "none"]
    /\ doc_ents = <<>>
    /\ response = NoResponse
    /\ core_invoked = FALSE
    /\ replay = IdleReplay
    /\ ctx = IdleCtx
    /\ \E a \in ListsUpTo(NlpPool, MaxList) : \E b \in ListsUpTo(LabPool, MaxLabList) :
          mrg = [nlp |-> a, lab |-> b, done |-> 0, merged |-> <<>>, again |-> <<>>]

Merge ==
    /\ mrg.done = 0
    /\ mrg' = [mrg EXCEPT !.done = 1, !.merged = merge(mrg.nlp, mrg.lab)]
    /\ UNCHANGED <<tables, request, doc_ents, response, core_invoked, replay, ctx>>

Remerge ==
    /\ mrg.done = 1
    /\ mrg' = [mrg EXCEPT !.done = 2, !.again = merge(mrg.merged, <<>>)]
    /\ UNCHANGED <<tables, request, doc_ents, response, core_invoked, replay, ctx>>

MrgNext == Merge \/ Remerge

SpecMerge == MrgInit /\ [][MrgNext]_vars

-----------------------------------------------------------------------------
(* The service answering a sequence of requests, the pipeline deterministic: *)
(* a probe text is analysed again and again among other requests, and lab   *)
(* extraction is run on it twice.                                           *)

MaxReplayFrags == 1

ReplayTexts == TextsUpTo(Fragments, MaxReplayFrags) \ {<<>>}

\* a pipeline that returns the same doc.ents for the same text
DeterministicDoc(text) ==
    LET outs == PipelineOutputs(text)
        most == CHOOSE n \in 0..MaxEnts :
                    /\ \E o \in outs : Len(o) = n
                    /\ \A o \in outs : Len(o) <= n
    IN  CHOOSE o \in outs : Len(o) = most

OtherText == <<"N","o"," ","B","P",":"," ","1","2","0","/","8","0">>

OtherBodies == {[kind |-> "malformed"], [kind |-> "object", obj |-> [text |-> OtherText]]}

ReplayInit ==
    /\ TablesInit
    /\ request = [route |-> "none"]
    /\ doc_ents = <<>>
    /\ response = NoResponse
    /\ core_invoked = FALSE
    /\ ctx = IdleCtx
    /\ mrg = IdleMrg
    /\ \E t \in ReplayTexts :
          replay = [probe |-> t, served |-> FALSE, first |-> <<>>, others |-> FALSE,
                    labs |-> <<>>]

ReplayProbe ==
    LET body == [kind |-> "object", obj |-> [text |-> replay.probe]]
    IN  /\ request' = [route |-> "/analyze", body |-> body]
        /\ analyze(body, DeterministicDoc(replay.probe))
        /\ replay' = [replay EXCEPT !.served = TRUE,
                                    !.first = IF replay.served THEN @ ELSE response'.entities]
        /\ UNCHANGED <<ctx, mrg>>

ReplayOther ==
    /\ \E body \in OtherBodies :
          /\ body.kind = "object" => TextOf(body) # replay.probe
          /\ request' = [route |-> "/analyze", body |-> body]
          /\ analyze(body, IF ReachesCore(body) THEN DeterministicDoc(TextOf(body)) ELSE <<>>)
    /\ replay' = [replay EXCEPT !.others = replay.served]
    /\ UNCHANGED <<ctx, mrg>>

ReplayHealth ==
    /\ request' = [route |-> "/health"]
    /\ health
    /\ replay' = [replay EXCEPT !.others = replay.served]
    /\ UNCHANGED <<ctx, mrg>>

ReplayLab ==
    /\ Len(replay.labs) < 2
    /\ replay' = [replay EXCEPT !.labs = Append(@, extract_lab_values(replay.probe))]
    /\ UNCHANGED <<tables, request, doc_ents, response, core_invoked, ctx, mrg>>

ReplayNext == ReplayProbe \/ ReplayOther \/ ReplayHealth \/ ReplayLab

SpecReplay == ReplayInit /\ [][ReplayNext]_vars

-----------------------------------------------------------------------------
(* Properties *)

\* whether cue occurs, without regard to case, wholly inside text[lo:hi]
OccursIn(text, lo, hi, cue) ==
    \E i \in lo..(hi - Len(cue)) :
        \A j \in 1..Len(cue) : LowerChar(text[i + j]) = cue[j]

ClaimNegationCues ==
    { <<"n","o"," ">>, <<"n","o","t"," ">>, <<"d","e","n","i","e","s"," ">>,
      <<"d","e","n","i","e","d"," ">>, <<"w","i","t","h","o","u","t"," ">>,
      <<"n","e","g","a","t","i","v","e"," ">>, <<"a","b","s","e","n","t"," ">>,
      <<"n","o"," ","e","v","i","d","e","n","c","e"," ","o","f">>,
      <<"r","u","l","e","d"," ","o","u","t">>, <<"r","u","l","e","s"," ","o","u","t">>,
      <<"u","n","l","i","k","e","l","y">> }

ClaimHistoricalCues ==
    { <<"h","i","s","t","o","r","y"," ","o","f">>, <<"h","/","o">>,
      <<"p","r","e","v","i","o","u","s">>, <<"p","r","i","o","r">>,
      <<"p","a","s","t">>, <<"f","o","r","m","e","r">> }

ClaimHypotheticalCues ==
    { <<"i","f"," ">>, <<"s","h","o","u","l","d"," ">>,
      <<"c","o","n","s","i","d","e","r"," ">>, <<"p","o","s","s","i","b","l","e"," ">>,
      <<"s","u","s","p","e","c","t">> }

NegationCueBefore(text, o) ==
    \E cue \in ClaimNegationCues : OccursIn(text, Max(0, o - 60), o, cue)
HistoricalCueBefore(text, o) ==
    \E cue \in ClaimHistoricalCues : OccursIn(text, Max(0, o - 80), o, cue)
HypotheticalCueBefore(text, o) ==
    \E cue \in ClaimHypotheticalCues : OccursIn(text, Max(0, o - 80), o, cue)

SetOf(seq) == {seq[i] : i \in 1..Len(seq)}

\* C1: detect_assertion(t, o) is "negated" exactly when one of the eleven
\* negation cues (the ones the table holds) occurs, without regard to case,
\* in t[max(0, o-60) : o], and "affirmed" otherwise.
C1_NegatedIffCueInWindow ==
    /\ SetOf(Rows(NegationCues0, NEGATION_CUES)) = ClaimNegationCues
    /\ ctx.assertion # "?" =>
          ctx.assertion = IF NegationCueBefore(ctx.text, ctx.off) THEN "negated"
                          ELSE "affirmed"

\* C1 witness: a negated result at an offset whose window does not start at 0
C1_Witness == ctx.assertion = "negated" /\ ctx.off > 60

\* C2: detect_temporality(t, o) is "historical" when a historical cue occurs in
\* t[max(0, o-80) : o], whatever else does; "hypothetical" when none does and a
\* hypothetical cue does; "current" when neither kind does.
C2_HistoricalThenHypothetical ==
    /\ SetOf(history_cues) = ClaimHistoricalCues
    /\ SetOf(hypothetical_cues) = ClaimHypotheticalCues
    /\ ctx.temporality # "?" =>
          ctx.temporality =
              IF HistoricalCueBefore(ctx.text, ctx.off) THEN "historical"
              ELSE IF HypotheticalCueBefore(ctx.text, ctx.off) THEN "hypothetical"
              ELSE "current"

\* C2 witness: both kinds of cue in the window, and the result historical
C2_Witness ==
    /\ ctx.temporality = "historical"
    /\ HypotheticalCueBefore(ctx.text, ctx.off)

ClaimKey(e) == <<[i \in 1..Len(e.text) |-> LowerChar(e.text[i])], e.type, e.spans[1].start>>

\* the positions of all that hold the first entity with their key
FirstOfKey(all) ==
    {i \in 1..Len(all) : \A j \in 1..(i - 1) : ClaimKey(all[j]) # ClaimKey(all[i])}

\* the k-th smallest member of a set of positions
Nth(S, k) == CHOOSE i \in S : Cardinality({j \in S : j < i}) = k - 1

\* C3: the merged list is the concatenation (NLP entities, then lab entities)
\* restricted to the first entity of every key (lower-cased text, type, span
\* start), each unchanged and in the concatenation's order.
C3_KeepsFirstOfEachKeyInOrder ==
    mrg.done >= 1 =>
        LET all   == mrg.nlp \o mrg.lab
            first == FirstOfKey(all)
        IN  /\ Len(mrg.merged) = Cardinality(first)
            /\ \A k \in 1..Len(mrg.merged) : mrg.merged[k] = all[Nth(first, k)]

\* C3 witness: a later entity of the same key (its text differing in case) was
\* dropped, while the same text at another offset and under another type stayed
C3_Witness ==
    /\ mrg.done >= 1
    /\ \E i, j \in 1..Len(mrg.nlp) :
          /\ i < j
          /\ ClaimKey(mrg.nlp[i]) = ClaimKey(mrg.nlp[j])
          /\ mrg.nlp[i] # mrg.nlp[j]
    /\ \E a, b \in 1..Len(mrg.merged) :
          /\ mrg.merged[a].text = mrg.merged[b].text
          /\ mrg.merged[a].spans[1].start # mrg.merged[b].spans[1].start

\* C9: merging the merged list with an empty lab list returns the merged list.
C9_DedupIdempotent == mrg.done = 2 => mrg.again = mrg.merged

\* C9 witness: a second merge of a list the first merge shortened and that
\* still holds two entities
C9_Witness ==
    /\ mrg.done = 2
    /\ Len(mrg.merged) < Len(mrg.nlp) + Len(mrg.lab)
    /\ Len(mrg.merged) >= 2

-----------------------------------------------------------------------------
(* Properties of an answered /analyze request *)

Answered200 == request.route = "/analyze" /\ response.status = 200
DocText     == TextOf(request.body)
HasFlag(ent) == "is_negated" \in DOMAIN ent

\* C4: a span the pipeline flags gets its assertion from the flag alone:
\* negated when the flag is true, affirmed when it is false.
C4_FlagAloneDecides ==
    Answered200 =>
        \A i \in 1..Len(doc_ents) :
            HasFlag(doc_ents[i]) =>
                response.entities[i].assertion =
                    IF doc_ents[i].is_negated THEN "negated" ELSE "affirmed"

\* C5: a span whose flag is present and true yields a negated entity.
C5_TrueFlagNegates ==
    Answered200 =>
        \A i \in 1..Len(doc_ents) :
            (HasFlag(doc_ents[i]) /\ doc_ents[i].is_negated) =>
                /\ response.entities[i].spans[1].start = doc_ents[i].start_char
                /\ response.entities[i].assertion = "negated"

\* C5 witness: a flagged span at offset 0, where no cue can precede it
C5_Witness ==
    /\ Answered200
    /\ \E i \in 1..Len(doc_ents) :
          /\ HasFlag(doc_ents[i]) /\ doc_ents[i].is_negated
          /\ doc_ents[i].start_char = 0
          /\ ~NegationCueBefore(DocText, 0)

\* C6 as claimed: every entity has one span with 0 <= start < end < L.
C6_SpanEndsBeforeLastCharacter ==
    Answered200 =>
        \A i \in 1..Len(response.entities) :
            LET sp == response.entities[i].spans
            IN  /\ Len(sp) = 1
                /\ 0 <= sp[1].start /\ sp[1].start < sp[1].end /\ sp[1].end < Len(DocText)

\* C6 amended: every entity has one span with 0 <= start < end <= L (the end
\* offset is exclusive, and is L for a match that reaches the end of the text).
C6_SpanWithinDocument ==
    Answered200 =>
        \A i \in 1..Len(response.entities) :
            LET sp == response.entities[i].spans
            IN  /\ Len(sp) = 1
                /\ 0 <= sp[1].start /\ sp[1].start < sp[1].end /\ sp[1].end <= Len(DocText)

\* C6 witness: a lab entity whose match reaches the end of the text, beside an
\* entity built from a pipeline span
C6_Witness ==
    /\ Answered200
    /\ Len(doc_ents) >= 1
    /\ \E i \in 1..Len(response.entities) :
          /\ response.entities[i].type = "lab"
          /\ response.entities[i].spans[1].end = Len(DocText)

HasNumber(e) == "numericValue" \in DOMAIN e
HasUnit(e)   == "unit" \in DOMAIN e

\* the rule a lab entity's code names, and what its group 1 captures in the
\* entity's text
RuleOfCode(code) ==
    LabPatterns0[CHOOSE r \in DOMAIN LabPatterns0 : LabPatterns0[r].loinc_code = code]
GroupIn(e) ==
    LET ways == MatchSeq(RuleOfCode(e.code).pattern, e.text, 0, <<>>)
    IN  Slice(e.text, ways[1].g1[1], ways[1].g1[2])

RECURSIVE Pow10(_)
Pow10(n) == IF n = 0 THEN 1 ELSE 10 * Pow10(n - 1)

\* whether the number nv = mant / 10^scale is the decimal that the digits of
\* group (with at most one ".") denote
Denotes(nv, group) ==
    LET digits == SelectSeq(group, LAMBDA c : c # ".")
        dot    == {i \in 1..Len(group) : group[i] = "."}
        places == IF dot = {} THEN 0 ELSE Len(group) - (CHOOSE i \in dot : TRUE)
    IN  /\ nv.scale <= places
        /\ nv.mant * Pow10(places - nv.scale) = DigitsValue(digits)

\* C7: numericValue is present exactly when unit is; a lab entity has both
\* exactly when its rule's group 1 holds no "/", then with the group's number
\* and the rule's unit, and has neither for a compound value, whose entity
\* still carries the raw matched text and the rule's code.
C7_NumberIffUnitIffNoSlash ==
    Answered200 =>
        \A i \in 1..Len(response.entities) :
            LET e == response.entities[i]
            IN  /\ HasNumber(e) <=> HasUnit(e)
                /\ e.type # "lab" => ~HasNumber(e)
                /\ e.type = "lab" =>
                      /\ e.text = Slice(DocText, e.spans[1].start, e.spans[1].end)
                      /\ \E r \in DOMAIN LabPatterns0 : LabPatterns0[r].loinc_code = e.code
                      /\ HasNumber(e) <=> ("/" \notin {GroupIn(e)[j] : j \in 1..Len(GroupIn(e))})
                      /\ HasNumber(e) =>
                            /\ Denotes(e.numericValue, GroupIn(e))
                            /\ e.unit = RuleOfCode(e.code).unit

\* C7 witness: "HR: 110" with numericValue 110 and unit /min beside
\* "BP: 120/80" with neither
C7_Witness ==
    /\ Answered200
    /\ \E i, j \in 1..Len(response.entities) :
          /\ response.entities[i].code = "8867-4"
          /\ HasNumber(response.entities[i])
          /\ response.entities[i].numericValue = [mant |-> 110, scale |-> 0]
          /\ response.entities[i].unit = "/min"
          /\ response.entities[j].code = "85354-9"
          /\ response.entities[j].text = <<"B","P",":"," ","1","2","0","/","8","0">>
          /\ ~HasNumber(response.entities[j]) /\ ~HasUnit(response.entities[j])

\* C8: a body that is malformed, or has no text or an empty one, is answered
\* 400 without the core being called; every other body is answered 200 with
\* an entities list.
C8_Status400WithoutCoreElse200 ==
    (request.route = "/analyze" /\ response.status # 0) =>
        IF /\ request.body.kind = "object"
           /\ "text" \in DOMAIN request.body.obj
           /\ request.body.obj.text # <<>>
        THEN response.status = 200 /\ "entities" \in DOMAIN response
        ELSE response.status = 400 /\ ~core_invoked

-----------------------------------------------------------------------------
(* Properties of a sequence of requests *)

ProbeBody == [kind |-> "object", obj |-> [text |-> replay.probe]]

\* C10: no request changes a table; the answer to the probe text is the one
\* it got the first time, whatever was served in between; and two runs of
\* lab extraction on the probe text return the same list.
C10_TablesFixedAnswersRepeat ==
    /\ CODE_MAP = DOMAIN CodeMap0
    /\ LAB_PATTERNS = AllRows(LabPatterns0)
    /\ NEGATION_CUES = AllRows(NegationCues0)
    /\ target_rules = DOMAIN TargetRules0
    /\ (replay.served /\ request.route = "/analyze" /\ request.body = ProbeBody) =>
          /\ response.status = 200
          /\ response.entities = replay.first
    /\ \A i, j \in 1..Len(replay.labs) : replay.labs[i] = replay.labs[j]

\* C10 witness: the probe analysed again after another request, its answer
\* holding entities, and lab extraction run twice with a match
C10_Witness ==
    /\ replay.served /\ replay.others
    /\ request.route = "/analyze" /\ request.body = ProbeBody
    /\ replay.first # <<>>
    /\ Len(replay.labs) = 2 /\ replay.labs[1] # <<>>

====
